---------------------------- MODULE Spec2Model ----------------------------
(***************************************************************************)
(* State-machine model of dai::BipartiteGraph (include/dai/bipgraph.h).    *)
(*                                                                         *)
(* Node ids and positions inside neighbour lists are 0-based as in the    *)
(* C++ code; TLA+ sequences are 1-based, so element i of a vector v is     *)
(* v[i+1].  The standard assert() macro is modelled as enabled (nothing in *)
(* the source defines NDEBUG): a failing assert aborts the process, and    *)
(* the state in which it aborted is kept and never left.  The checks that  *)
(* sit inside #ifdef DAI_DEBUG exist only in a DAI_DEBUG build; both       *)
(* builds are modelled.                                                    *)
(***************************************************************************)
EXTENDS Integers, Sequences, FiniteSets, TLC

VARIABLES
    _nb1,           \* std::vector<Neighbors> _nb1
    _nb2,           \* std::vector<Neighbors> _nb2
    _edge_indexed,  \* bool _edge_indexed
    _edges,         \* std::vector<Edge> _edges
    _vv2e,          \* hash_map<Edge,size_t> _vv2e
    DAI_DEBUG,      \* is the build compiled with -DDAI_DEBUG
    err,            \* "ok", or how the process ended
    last,           \* the call that produced this state
    ret,            \* what that call returned
    indexed_once,   \* history: indexEdges() has been called on this object
    stale,          \* history: the mutating calls made since the last indexEdges()
    pre,            \* history: the store before the call last, when last changes the
                    \*          store (but for construct, which discards the store)
    rt              \* history: the store before a checked addEdge( n1, n2 ), when
                    \*          last is the eraseEdge( n1, n2 ) that followed it at once

vars == <<_nb1, _nb2, _edge_indexed, _edges, _vv2e, DAI_DEBUG, err, last, ret,
          indexed_once, stale, pre, rt>>

---------------------------------------------------------------------------
(* Bounds of the model *)

\* largest number of nodes of one type
MaxNr == 2
\* largest length of one neighbour list
MaxDeg == 2
\* largest length of an input range (edges of construct, neighbours of add1/add2)
MaxLen == 2
\* largest number of edges in the store when indexEdges() is called
MaxIndexed == 2
\* largest number of mutating calls between two calls of indexEdges()
MaxStale == 1

\* node ids offered to the calls: 0..MaxNr, so that an out-of-range id always exists
Ids == 0..MaxNr

---------------------------------------------------------------------------
(* Values *)

Neighbor(iter, node, dual) == [iter |-> iter, node |-> node, dual |-> dual]

Edge(n1, n2) == <<n1, n2>>

\* The adjacency store as a value: the two vectors, and how the call on it ended.
Store(v1, v2, e) == [nb1 |-> v1, nb2 |-> v2, err |-> e]

\* assert( cond ) failed: the process aborts with the store as it is.
Abort(g, e) == [g EXCEPT !.err = e]

nr1(g) == Len(g.nb1)

nr2(g) == Len(g.nb2)

\* nb1(i1), nb2(i2) on in-range ids
nb1(g, i1) == g.nb1[i1 + 1]

nb2(g, i2) == g.nb2[i2 + 1]

RECURSIVE SumLen(_, _)
SumLen(v, n) == IF n = 0 THEN 0 ELSE SumLen(v, n - 1) + Len(v[n])

\* nrEdges with the loop started at i1 = 1 instead of i1 = 0
nrEdges_fromOne(g) ==
    SumLen(g.nb1, nr1(g)) - (IF nr1(g) > 0 THEN Len(g.nb1[1]) ELSE 0)

\* nrEdges with the loop ended at i1 < nr1() - 1 instead of i1 < nr1()
nrEdges_butLast(g) == SumLen(g.nb1, IF nr1(g) > 0 THEN nr1(g) - 1 ELSE 0)

nrEdges(g) == SumLen(g.nb1, nr1(g))

\* vector::erase of the element at (1-based) position k
EraseAt(s, k) == [j \in 1..(Len(s) - 1) |-> IF j < k THEN s[j] ELSE s[j + 1]]

\* the first (1-based) position of s whose node member is n, or 0
FirstPos(s, n) ==
    IF \E k \in 1..Len(s) : s[k].node = n
    THEN CHOOSE k \in 1..Len(s) : s[k].node = n /\ \A j \in 1..(k - 1) : s[j].node # n
    ELSE 0

---------------------------------------------------------------------------
(* Mutations of the store that the header defines *)

add1(g) == [g EXCEPT !.nb1 = Append(@, <<>>)]

add2(g) == [g EXCEPT !.nb2 = Append(@, <<>>)]

\* The loop of add1( begin, end ) with the first and the last argument of
\* nb2new swapped: Neighbor nb2new( iter++, nr1(), nb2(*it).size() )
RECURSIVE add1_loop_swapped(_, _, _)
add1_loop_swapped(g, acc, ids) ==
    IF ids = <<>> THEN [g EXCEPT !.nb1 = Append(@, acc)]
    ELSE LET it == Head(ids) IN
         IF ~(it < nr2(g)) THEN Abort(g, "IndexOutOfRange")
         ELSE LET nb1new == Neighbor(Len(acc), it, Len(nb2(g, it)))
                  nb2new == Neighbor(Len(acc), nr1(g), Len(nb2(g, it)))
              IN  add1_loop_swapped([g EXCEPT !.nb2[it + 1] = Append(@, nb2new)],
                                    Append(acc, nb1new), Tail(ids))

\* The loop of add1( begin, end ): acc is nbs1new, ids what is left of the range.
RECURSIVE add1_loop(_, _, _)
add1_loop(g, acc, ids) ==
    IF ids = <<>> THEN [g EXCEPT !.nb1 = Append(@, acc)]
    ELSE LET it == Head(ids) IN
         IF ~(it < nr2(g)) THEN Abort(g, "IndexOutOfRange")
         ELSE LET nb1new == Neighbor(Len(acc), it, Len(nb2(g, it)))
                  nb2new == Neighbor(Len(nb2(g, it)), nr1(g), Len(acc))
              IN  add1_loop([g EXCEPT !.nb2[it + 1] = Append(@, nb2new)],
                            Append(acc, nb1new), Tail(ids))

add1_range(g, ids) == add1_loop(g, <<>>, ids)

RECURSIVE add2_loop(_, _, _)
add2_loop(g, acc, ids) ==
    IF ids = <<>> THEN [g EXCEPT !.nb2 = Append(@, acc)]
    ELSE LET it == Head(ids) IN
         IF ~(it < nr1(g)) THEN Abort(g, "IndexOutOfRange")
         ELSE LET nb2new == Neighbor(Len(acc), it, Len(nb1(g, it)))
                  nb1new == Neighbor(Len(nb1(g, it)), nr2(g), Len(acc))
              IN  add2_loop([g EXCEPT !.nb1[it + 1] = Append(@, nb1new)],
                            Append(acc, nb2new), Tail(ids))

add2_range(g, ids) == add2_loop(g, <<>>, ids)

\* eraseEdge without its second loop: the record in _nb2[n2] stays
eraseEdge_firstLoopOnly(g, n1, n2) ==
    IF ~(n1 < nr1(g)) \/ ~(n2 < nr2(g)) THEN Abort(g, "IndexOutOfRange")
    ELSE LET p1 == FirstPos(nb1(g, n1), n2)
         IN  [g EXCEPT !.nb1[n1 + 1] = IF p1 = 0 THEN @ ELSE EraseAt(@, p1)]

\* eraseEdge with erase( begin() ) in place of erase( i1 ) and erase( i2 )
eraseEdge_eraseBegin(g, n1, n2) ==
    IF ~(n1 < nr1(g)) \/ ~(n2 < nr2(g)) THEN Abort(g, "IndexOutOfRange")
    ELSE LET p1 == FirstPos(nb1(g, n1), n2)
             p2 == FirstPos(nb2(g, n2), n1)
         IN  [g EXCEPT !.nb1[n1 + 1] = IF p1 = 0 THEN @ ELSE EraseAt(@, 1),
                       !.nb2[n2 + 1] = IF p2 = 0 THEN @ ELSE EraseAt(@, 1)]

\* eraseEdge that signals EdgeNotFound when n1's list has no record for n2
eraseEdge_signalsNotFound(g, n1, n2) ==
    IF ~(n1 < nr1(g)) \/ ~(n2 < nr2(g)) THEN Abort(g, "IndexOutOfRange")
    ELSE LET p1 == FirstPos(nb1(g, n1), n2)
             p2 == FirstPos(nb2(g, n2), n1)
         IN  IF p1 = 0 THEN Abort(g, "EdgeNotFound")
             ELSE [g EXCEPT !.nb1[n1 + 1] = EraseAt(@, p1),
                            !.nb2[n2 + 1] = IF p2 = 0 THEN @ ELSE EraseAt(@, p2)]

\* eraseEdge without the two break statements: every matching record goes
eraseEdge_noBreak(g, n1, n2) ==
    IF ~(n1 < nr1(g)) \/ ~(n2 < nr2(g)) THEN Abort(g, "IndexOutOfRange")
    ELSE [g EXCEPT !.nb1[n1 + 1] = SelectSeq(@, LAMBDA r : r.node # n2),
                   !.nb2[n2 + 1] = SelectSeq(@, LAMBDA r : r.node # n1)]

eraseEdge(g, n1, n2) ==
    IF ~(n1 < nr1(g)) \/ ~(n2 < nr2(g)) THEN Abort(g, "IndexOutOfRange")
    ELSE LET p1 == FirstPos(nb1(g, n1), n2)
             p2 == FirstPos(nb2(g, n2), n1)
         IN  [g EXCEPT !.nb1[n1 + 1] = IF p1 = 0 THEN @ ELSE EraseAt(@, p1),
                       !.nb2[n2 + 1] = IF p2 = 0 THEN @ ELSE EraseAt(@, p2)]

\* addEdge without the search for the edge: check is not looked at
addEdge_noSearch(g, n1, n2, check) ==
    IF ~(n1 < nr1(g)) \/ ~(n2 < nr2(g)) THEN Abort(g, "IndexOutOfRange")
    ELSE LET nb_1 == Neighbor(Len(nb1(g, n1)), n2, Len(nb2(g, n2)))
             nb_2 == Neighbor(nb_1.dual, n1, nb_1.iter)
         IN  [g EXCEPT !.nb1[n1 + 1] = Append(@, nb_1),
                       !.nb2[n2 + 1] = Append(@, nb_2)]

\* addEdge with iter and dual of nb_2 swapped: Neighbor nb_2( nb_1.iter, n1, nb_1.dual )
addEdge_swapped(g, n1, n2, check) ==
    IF ~(n1 < nr1(g)) \/ ~(n2 < nr2(g)) THEN Abort(g, "IndexOutOfRange")
    ELSE LET exists == check /\ FirstPos(nb1(g, n1), n2) # 0
             nb_1 == Neighbor(Len(nb1(g, n1)), n2, Len(nb2(g, n2)))
             nb_2 == Neighbor(nb_1.iter, n1, nb_1.dual)
         IN  IF exists THEN g
             ELSE [g EXCEPT !.nb1[n1 + 1] = Append(@, nb_1),
                            !.nb2[n2 + 1] = Append(@, nb_2)]

addEdge(g, n1, n2, check) ==
    IF ~(n1 < nr1(g)) \/ ~(n2 < nr2(g)) THEN Abort(g, "IndexOutOfRange")
    ELSE LET exists == check /\ FirstPos(nb1(g, n1), n2) # 0
             nb_1 == Neighbor(Len(nb1(g, n1)), n2, Len(nb2(g, n2)))
             nb_2 == Neighbor(nb_1.dual, n1, nb_1.iter)
         IN  IF exists THEN g
             ELSE [g EXCEPT !.nb1[n1 + 1] = Append(@, nb_1),
                            !.nb2[n2 + 1] = Append(@, nb_2)]

\* The loop of construct: one addEdge per edge, until one aborts.
RECURSIVE construct_loop(_, _, _)
construct_loop(g, edges, check) ==
    IF edges = <<>> \/ g.err # "ok" THEN g
    ELSE construct_loop(addEdge(g, Head(edges)[1], Head(edges)[2], check),
                        Tail(edges), check)

\* construct without the two calls of clear(): resize keeps the old elements
construct_noClear(g, n1, n2, edges, debug) ==
    construct_loop(Store([i \in 1..n1 |-> IF i <= Len(g.nb1) THEN g.nb1[i] ELSE <<>>],
                         [i \in 1..n2 |-> IF i <= Len(g.nb2) THEN g.nb2[i] ELSE <<>>],
                         "ok"),
                   edges, debug)

\* construct( nr1, nr2, begin, end ); debug is whether DAI_DEBUG is defined
construct(g, n1, n2, edges, debug) ==
    construct_loop(Store([i \in 1..n1 |-> <<>>], [i \in 1..n2 |-> <<>>], "ok"),
                   edges, debug)

---------------------------------------------------------------------------
(* The backwards compatibility layer: _edge_indexed, _edges, _vv2e *)

Index(flag, es, m) == [indexed |-> flag, edges |-> es, vv2e |-> m]

\* operator< of std::pair<size_t,size_t>
EdgeLess(e, f) == e[1] < f[1] \/ (e[1] = f[1] /\ e[2] < f[2])

\* The first loop of indexEdges: the edges of nodes i.. of type 1, in list order.
RECURSIVE ListEdges(_, _)
ListEdges(g, i) ==
    IF i >= nr1(g) THEN <<>>
    ELSE [k \in 1..Len(nb1(g, i)) |-> Edge(i, nb1(g, i)[k].node)] \o ListEdges(g, i + 1)

\* e put into the sorted sequence s, before the first element greater than it
InsertSorted(s, e) ==
    LET k == Cardinality({j \in 1..Len(s) : ~EdgeLess(e, s[j])})
    IN  SubSeq(s, 1, k) \o <<e>> \o SubSeq(s, k + 1, Len(s))

\* sort( _edges.begin(), _edges.end() )
RECURSIVE sort(_)
sort(s) == IF s = <<>> THEN <<>> ELSE InsertSorted(sort(Tail(s)), Head(s))

\* The second loop of indexEdges with _vv2e[e] = ++i in place of _vv2e[e] = i++
BuildMap_preIncrement(es) ==
    [e \in {es[k] : k \in 1..Len(es)} |->
        CHOOSE k \in 1..Len(es) : es[k] = e /\ \A j \in (k + 1)..Len(es) : es[j] # e]

\* The second loop of indexEdges: _vv2e[e] = i++ for i = 0, 1, ...; a later
\* assignment to the same key overwrites the earlier one.
BuildMap(es) ==
    [e \in {es[k] : k \in 1..Len(es)} |->
        (CHOOSE k \in 1..Len(es) : es[k] = e /\ \A j \in (k + 1)..Len(es) : es[j] # e) - 1]

\* indexEdges without its last statement, _edge_indexed = true
indexEdges_noFlag(g) ==
    LET es == sort(ListEdges(g, 0)) IN Index(FALSE, es, BuildMap(es))

indexEdges(g) ==
    LET es == sort(ListEdges(g, 0)) IN Index(TRUE, es, BuildMap(es))

\* The three queries: what the call returns, and how it ends.  An assert that
\* fails aborts; _edges[e] with e out of range is undefined behaviour, of which
\* the outcomes kept are a crash and a return of some value.
Outcome(e, v) == [err |-> e, ret |-> v]

edge(x, e) ==
    IF ~x.indexed THEN {Outcome("NotIndexed", "none")}
    ELSE IF e < Len(x.edges) THEN {Outcome("ok", x.edges[e + 1])}
    ELSE {Outcome("crash", "none"), Outcome("ok", "garbage")}

VV2E(x, n1, n2) ==
    IF ~x.indexed THEN {Outcome("NotIndexed", "none")}
    ELSE IF Edge(n1, n2) \in DOMAIN x.vv2e THEN {Outcome("ok", x.vv2e[Edge(n1, n2)])}
    ELSE {Outcome("EdgeNotFound", "none")}

nr_edges(x) ==
    IF ~x.indexed THEN {Outcome("NotIndexed", "none")}
    ELSE {Outcome("ok", Len(x.edges))}

---------------------------------------------------------------------------
(* The accessors nb1( i1, _i2 ), nb2( i2, _i1 ), nb1( i1 ), nb2( i2 ) as calls. *)
(* Their asserts exist only in a DAI_DEBUG build; without them an index out  *)
(* of range is undefined behaviour.                                          *)

nb1_at(g, i1, _i2, debug) ==
    IF i1 < nr1(g) /\ _i2 < Len(nb1(g, i1)) THEN {Outcome("ok", nb1(g, i1)[_i2 + 1])}
    ELSE IF debug THEN {Outcome("IndexOutOfRange", "none")}
    ELSE {Outcome("crash", "none"), Outcome("ok", "garbage")}

nb2_at(g, i2, _i1, debug) ==
    IF i2 < nr2(g) /\ _i1 < Len(nb2(g, i2)) THEN {Outcome("ok", nb2(g, i2)[_i1 + 1])}
    ELSE IF debug THEN {Outcome("IndexOutOfRange", "none")}
    ELSE {Outcome("crash", "none"), Outcome("ok", "garbage")}

nb1_of(g, i1, debug) ==
    IF i1 < nr1(g) THEN {Outcome("ok", nb1(g, i1))}
    ELSE IF debug THEN {Outcome("IndexOutOfRange", "none")}
    ELSE {Outcome("crash", "none"), Outcome("ok", "garbage")}

nb2_of(g, i2, debug) ==
    IF i2 < nr2(g) THEN {Outcome("ok", nb2(g, i2))}
    ELSE IF debug THEN {Outcome("IndexOutOfRange", "none")}
    ELSE {Outcome("crash", "none"), Outcome("ok", "garbage")}

---------------------------------------------------------------------------
(* erase1, erase2, isConnected and isTree are declared in the header and     *)
(* defined in a translation unit that is not part of the sources at hand;   *)
(* they are modelled from the specification (section 4.1).                   *)

\* how many of the records before (1-based) position q of list L name node n
Gone(L, n, q) == Cardinality({j \in 1..(q - 1) : L[j].node = n})

\* A neighbour list of the opposite type after node n is removed: the records
\* that name n are erased, every record shifted by that has its iter
\* decremented, and every node member above n is decremented.
DropNode(L, n) ==
    SelectSeq([q \in 1..Len(L) |->
                  [L[q] EXCEPT !.iter = @ - Gone(L, n, q)]],
              LAMBDA r : r.node # n)

Renumber(L, n) ==
    [q \in 1..Len(L) |-> [L[q] EXCEPT !.node = IF @ > n THEN @ - 1 ELSE @]]

\* A record t at (0-based) position d of the list of node m, whose reciprocal
\* record sits in list L of node t.node: the reciprocal is the record at
\* position t.dual of L that points back at (m, d).  When L loses records
\* that name n before the reciprocal, t.dual is decremented likewise.
RepairDual(t, m, d, L, n) ==
    IF t.dual < Len(L) /\ L[t.dual + 1].node = m /\ L[t.dual + 1].dual = d
       /\ L[t.dual + 1].node # n
    THEN [t EXCEPT !.dual = @ - Gone(L, n, t.dual + 1)]
    ELSE t

erase1(g, n1) ==
    IF ~(n1 < nr1(g)) THEN Abort(g, "IndexOutOfRange")
    ELSE LET repaired == [m \in 1..nr1(g) |->
                             [d \in 1..Len(g.nb1[m]) |->
                                 LET t == g.nb1[m][d]
                                 IN  IF t.node < nr2(g)
                                     THEN RepairDual(t, m - 1, d - 1, nb2(g, t.node), n1)
                                     ELSE t]]
         IN  [g EXCEPT !.nb1 = EraseAt(repaired, n1 + 1),
                       !.nb2 = [i \in 1..nr2(g) |-> Renumber(DropNode(g.nb2[i], n1), n1)]]

erase2(g, n2) ==
    IF ~(n2 < nr2(g)) THEN Abort(g, "IndexOutOfRange")
    ELSE LET repaired == [m \in 1..nr2(g) |->
                             [d \in 1..Len(g.nb2[m]) |->
                                 LET t == g.nb2[m][d]
                                 IN  IF t.node < nr1(g)
                                     THEN RepairDual(t, m - 1, d - 1, nb1(g, t.node), n2)
                                     ELSE t]]
         IN  [g EXCEPT !.nb2 = EraseAt(repaired, n2 + 1),
                       !.nb1 = [i \in 1..nr1(g) |-> Renumber(DropNode(g.nb1[i], n2), n2)]]

\* A node of the traversal graph: <<type, id>>
Nodes(g) == ({1} \X (0..(nr1(g) - 1))) \cup ({2} \X (0..(nr2(g) - 1)))

\* the neighbour list of node u
ListOf(g, u) == IF u[1] = 1 THEN nb1(g, u[2]) ELSE nb2(g, u[2])

\* the nodes adjacent to u
Adjacent(g, u) == {<<3 - u[1], ListOf(g, u)[k].node>> : k \in 1..Len(ListOf(g, u))}

\* "an arbitrary start node"
StartNode(g) == IF nr1(g) > 0 THEN <<1, 0>> ELSE <<2, 0>>

\* breadth-first search: S is what has been reached so far
RECURSIVE Reach(_, _)
Reach(g, S) ==
    LET T == S \cup UNION {Adjacent(g, u) : u \in S}
    IN  IF T = S THEN S ELSE Reach(g, T)

\* isConnected that looks only at whether the nodes of type 1 were reached
isConnected_type1Only(g) ==
    IF Nodes(g) = {} THEN TRUE
    ELSE {u \in Nodes(g) : u[1] = 1} \subseteq Reach(g, {StartNode(g)})

isConnected(g) ==
    IF Nodes(g) = {} THEN TRUE
    ELSE Reach(g, {StartNode(g)}) = Nodes(g)

\* One entry of a frontier: a node and the node it was reached from.
NoNode == <<0, 0>>

\* The nodes met when the frontier entry f is expanded: every record of its
\* list, but for one record that leads back to where f was reached from.
Expand(g, f) ==
    LET L == ListOf(g, f[1])
        back == IF f[2] = NoNode THEN 0 ELSE FirstPos(L, f[2][2])
        out == IF back = 0 THEN L ELSE EraseAt(L, back)
    IN  [k \in 1..Len(out) |-> << <<3 - f[1][1], out[k].node>>, f[1] >>]

RECURSIVE ExpandAll(_, _)
ExpandAll(g, F) == IF F = <<>> THEN <<>> ELSE Expand(g, Head(F)) \o ExpandAll(g, Tail(F))

\* Level-by-level traversal: V is what the levels so far hold, F the frontier.
\* TRUE when some node is met again during an expansion.
RECURSIVE FoundCycle(_, _, _)
FoundCycle(g, V, F) ==
    IF F = <<>> THEN FALSE
    ELSE LET T == ExpandAll(g, F)
             revisit == \/ \E k \in 1..Len(T) : T[k][1] \in V
                        \/ \E j, k \in 1..Len(T) : j < k /\ T[j][1] = T[k][1]
         IN  IF revisit THEN TRUE
             ELSE FoundCycle(g, V \cup {T[k][1] : k \in 1..Len(T)}, T)

isTree(g) ==
    /\ isConnected(g)
    /\ \/ Nodes(g) = {}
       \/ ~FoundCycle(g, {StartNode(g)}, << <<StartNode(g), NoNode>> >>)

\* delta1 and delta2 are declared in the header ("Calculates second-order
\* neighbors (i.e., neighbors of neighbors) of node n1 of type 1.  If include
\* == true, includes n1 itself, otherwise excludes n1.") and defined in the
\* same missing translation unit; they are modelled from that comment and from
\* the specification (section 4.1): the nodes two hops away, collected list by
\* list, then deduplicated.

\* the node members of the records of list L, in list order
node_members(L) == [k \in 1..Len(L) |-> L[k].node]

\* The nodes met two hops from node n: mine are the lists of n's type, other
\* those of the opposite type.
RECURSIVE TwoHops(_, _, _, _)
TwoHops(mine, other, n, p) ==
    IF p > Len(mine[n + 1]) THEN <<>>
    ELSE LET L == other[mine[n + 1][p].node + 1]
         IN  node_members(L) \o TwoHops(mine, other, n, p + 1)

\* Only neighbouring equal elements are dropped (std::unique without a sort).
RECURSIVE RemoveDuplicates_neighbouringOnly(_)
RemoveDuplicates_neighbouringOnly(s) ==
    IF Len(s) <= 1 THEN s
    ELSE LET r == RemoveDuplicates_neighbouringOnly(SubSeq(s, 1, Len(s) - 1))
         IN  IF r[Len(r)] = s[Len(s)] THEN r ELSE Append(r, s[Len(s)])

\* s with the first of each of its elements kept
RECURSIVE RemoveDuplicates(_)
RemoveDuplicates(s) ==
    IF s = <<>> THEN <<>>
    ELSE LET r == RemoveDuplicates(SubSeq(s, 1, Len(s) - 1))
         IN  IF \E k \in 1..Len(r) : r[k] = s[Len(s)] THEN r ELSE Append(r, s[Len(s)])

\* the result of delta1 / delta2 on node n, which is in range
delta(mine, other, n, include) ==
    LET two == RemoveDuplicates(TwoHops(mine, other, n, 1))
    IN  IF include
        THEN IF \E k \in 1..Len(two) : two[k] = n THEN two ELSE Append(two, n)
        ELSE SelectSeq(two, LAMBDA m : m # n)

delta1(g, n1, include) ==
    IF ~(n1 < nr1(g)) THEN {Outcome("IndexOutOfRange", "none")}
    ELSE {Outcome("ok", delta(g.nb1, g.nb2, n1, include))}

delta2(g, n2, include) ==
    IF ~(n2 < nr2(g)) THEN {Outcome("IndexOutOfRange", "none")}
    ELSE {Outcome("ok", delta(g.nb2, g.nb1, n2, include))}

---------------------------------------------------------------------------
(* The state machine.  The object is used by one sequential caller: it      *)
(* calls a member function, which runs to its end (one action); last and    *)
(* ret then hold the call and what it returned, until the caller goes on    *)
(* (Proceed) and makes its next call.                                        *)

\* the store and the index of the current state, as values
Cur == Store(_nb1, _nb2, "ok")

CurIndex == Index(_edge_indexed, _edges, _vv2e)

Call(op, n1, n2, check, ids) ==
    [op |-> op, n1 |-> n1, n2 |-> n2, check |-> check, ids |-> ids]

NoCall == Call("none", 0, 0, FALSE, <<>>)

\* no store kept
None == Store(<<>>, <<>>, "none")

Mutators ==
    {"construct", "add1", "add2", "add1_range", "add2_range",
     "erase1", "erase2", "eraseEdge", "addEdge"}

SeqsUpTo(S, n) == UNION {[1..k -> S] : k \in 0..n}

Bounded(g) ==
    /\ nr1(g) <= MaxNr
    /\ nr2(g) <= MaxNr
    /\ \A i \in 1..nr1(g) : Len(g.nb1[i]) <= MaxDeg
    /\ \A i \in 1..nr2(g) : Len(g.nb2[i]) <= MaxDeg

\* the caller is between two calls
Idle == err = "ok" /\ last = NoCall

Init ==
    /\ _nb1 = <<>>
    /\ _nb2 = <<>>
    /\ _edge_indexed = FALSE
    /\ _edges = <<>>
    /\ _vv2e = <<>>
    /\ DAI_DEBUG \in BOOLEAN
    /\ err = "ok"
    /\ last = Call("BipartiteGraph", 0, 0, FALSE, <<>>)
    /\ ret = "void"
    /\ indexed_once = FALSE
    /\ stale = 0
    /\ pre = None
    /\ rt = None

Proceed ==
    /\ err = "ok"
    /\ last # NoCall
    /\ last' = NoCall
    /\ ret' = "void"
    /\ pre' = None
    /\ rt' = None
    /\ UNCHANGED <<_nb1, _nb2, _edge_indexed, _edges, _vv2e, DAI_DEBUG, err,
                   indexed_once, stale>>

\* A construct that starts from a fresh object: it also clears the index.
Effect_constructClearsIndex(c, r, h) ==
    /\ Bounded(r)
    /\ _edge_indexed => stale < MaxStale
    /\ _nb1' = r.nb1
    /\ _nb2' = r.nb2
    /\ err' = r.err
    /\ last' = c
    /\ ret' = "void"
    /\ stale' = IF _edge_indexed THEN stale + 1 ELSE 0
    /\ pre' = IF c.op # "construct" THEN Cur ELSE None
    /\ rt' = h
    /\ _edge_indexed' = IF c.op = "construct" THEN FALSE ELSE _edge_indexed
    /\ _edges' = IF c.op = "construct" THEN <<>> ELSE _edges
    /\ _vv2e' = IF c.op = "construct" THEN <<>> ELSE _vv2e
    /\ UNCHANGED <<DAI_DEBUG, indexed_once>>

\* What a mutating call c does to the object: it leaves the store as r (or
\* aborts in r) and assigns no other member.  h is what rt becomes.
Effect(c, r, h) ==
    /\ Bounded(r)
    /\ _edge_indexed => stale < MaxStale
    /\ _nb1' = r.nb1
    /\ _nb2' = r.nb2
    /\ err' = r.err
    /\ last' = c
    /\ ret' = "void"
    /\ stale' = IF _edge_indexed THEN stale + 1 ELSE 0
    /\ pre' = IF c.op # "construct" THEN Cur ELSE None
    /\ rt' = h
    /\ UNCHANGED <<_edge_indexed, _edges, _vv2e, DAI_DEBUG, indexed_once>>

\* A call c that changes the store to r (or aborts in r).
Mutate(c, r) == Idle /\ Effect(c, r, None)

\* A const call c that ends as outcome o.
Query(c, o) ==
    /\ Idle
    /\ err' = o.err
    /\ ret' = o.ret
    /\ last' = c
    /\ pre' = None
    /\ rt' = None
    /\ UNCHANGED <<_nb1, _nb2, _edge_indexed, _edges, _vv2e, DAI_DEBUG,
                   indexed_once, stale>>

Construct ==
    \E n1, n2 \in 0..MaxNr : \E edges \in SeqsUpTo((0..n1) \X (0..n2), MaxLen) :
        Mutate(Call("construct", n1, n2, FALSE, edges),
               construct(Cur, n1, n2, edges, DAI_DEBUG))

Add1 == Mutate(Call("add1", 0, 0, FALSE, <<>>), add1(Cur))

Add2 == Mutate(Call("add2", 0, 0, FALSE, <<>>), add2(Cur))

Add1Range ==
    \E ids \in SeqsUpTo(Ids, MaxLen) :
        Mutate(Call("add1_range", 0, 0, FALSE, ids), add1_range(Cur, ids))

Add2Range ==
    \E ids \in SeqsUpTo(Ids, MaxLen) :
        Mutate(Call("add2_range", 0, 0, FALSE, ids), add2_range(Cur, ids))

Erase1 == \E n1 \in Ids : Mutate(Call("erase1", n1, 0, FALSE, <<>>), erase1(Cur, n1))

Erase2 == \E n2 \in Ids : Mutate(Call("erase2", 0, n2, FALSE, <<>>), erase2(Cur, n2))

EraseEdge ==
    \E n1, n2 \in Ids :
        Mutate(Call("eraseEdge", n1, n2, FALSE, <<>>), eraseEdge(Cur, n1, n2))

AddEdge ==
    \E n1, n2 \in Ids, check \in BOOLEAN :
        Mutate(Call("addEdge", n1, n2, check, <<>>), addEdge(Cur, n1, n2, check))

\* eraseEdge( n1, n2 ) called right after addEdge( n1, n2 ) has returned
EraseAfterAdd ==
    /\ err = "ok"
    /\ last.op = "addEdge"
    /\ last.check
    /\ Effect(Call("eraseEdge", last.n1, last.n2, FALSE, <<>>),
              eraseEdge(Cur, last.n1, last.n2), pre)

NrEdges == Query(Call("nrEdges", 0, 0, FALSE, <<>>), Outcome("ok", nrEdges(Cur)))

IsConnected ==
    Query(Call("isConnected", 0, 0, FALSE, <<>>), Outcome("ok", isConnected(Cur)))

IsTree == Query(Call("isTree", 0, 0, FALSE, <<>>), Outcome("ok", isTree(Cur)))

Delta1 ==
    /\ Idle
    /\ \E n1 \in Ids, include \in BOOLEAN : \E o \in delta1(Cur, n1, include) :
          Query(Call("delta1", n1, 0, include, <<>>), o)

Delta2 ==
    /\ Idle
    /\ \E n2 \in Ids, include \in BOOLEAN : \E o \in delta2(Cur, n2, include) :
          Query(Call("delta2", 0, n2, include, <<>>), o)

Nb1At ==
    \E i1 \in Ids, _i2 \in 0..MaxDeg : \E o \in nb1_at(Cur, i1, _i2, DAI_DEBUG) :
        Query(Call("nb1_at", i1, _i2, FALSE, <<>>), o)

Nb2At ==
    \E i2 \in Ids, _i1 \in 0..MaxDeg : \E o \in nb2_at(Cur, i2, _i1, DAI_DEBUG) :
        Query(Call("nb2_at", _i1, i2, FALSE, <<>>), o)

Nb1Of ==
    \E i1 \in Ids : \E o \in nb1_of(Cur, i1, DAI_DEBUG) :
        Query(Call("nb1_of", i1, 0, FALSE, <<>>), o)

Nb2Of ==
    \E i2 \in Ids : \E o \in nb2_of(Cur, i2, DAI_DEBUG) :
        Query(Call("nb2_of", 0, i2, FALSE, <<>>), o)

IndexEdges ==
    /\ Idle
    /\ nrEdges(Cur) <= MaxIndexed
    /\ _edge_indexed' = indexEdges(Cur).indexed
    /\ _edges' = indexEdges(Cur).edges
    /\ _vv2e' = indexEdges(Cur).vv2e
    /\ indexed_once' = TRUE
    /\ stale' = 0
    /\ last' = Call("indexEdges", 0, 0, FALSE, <<>>)
    /\ ret' = "void"
    /\ pre' = None
    /\ rt' = None
    /\ UNCHANGED <<_nb1, _nb2, DAI_DEBUG, err>>

EdgeAt ==
    \E e \in 0..MaxIndexed : \E o \in edge(CurIndex, e) :
        Query(Call("edge", e, 0, FALSE, <<>>), o)

VV2EOf ==
    \E n1, n2 \in Ids : \E o \in VV2E(CurIndex, n1, n2) :
        Query(Call("VV2E", n1, n2, FALSE, <<>>), o)

NrEdgesIndexed ==
    \E o \in nr_edges(CurIndex) : Query(Call("nr_edges", 0, 0, FALSE, <<>>), o)

Next ==
    \/ Proceed
    \/ Construct
    \/ Add1
    \/ Add2
    \/ Add1Range
    \/ Add2Range
    \/ Erase1
    \/ Erase2
    \/ EraseEdge
    \/ AddEdge
    \/ EraseAfterAdd
    \/ NrEdges
    \/ IsConnected
    \/ IsTree
    \/ Delta1
    \/ Delta2
    \/ Nb1At
    \/ Nb2At
    \/ Nb1Of
    \/ Nb2Of
    \/ IndexEdges
    \/ EdgeAt
    \/ VV2EOf
    \/ NrEdgesIndexed

Spec == Init /\ [][Next]_vars

\* The object used only to grow: construct, add1, add2 (with or without
\* neighbours) and addEdge.
GrowNext ==
    \/ Proceed
    \/ Construct
    \/ Add1
    \/ Add2
    \/ Add1Range
    \/ Add2Range
    \/ AddEdge

GrowSpec == Init /\ [][GrowNext]_vars

\* addEdge( n1, n2 ) with check left at its default, true
AddEdgeChecked ==
    \E n1, n2 \in Ids :
        Mutate(Call("addEdge", n1, n2, TRUE, <<>>), addEdge(Cur, n1, n2, TRUE))

\* The object whose edges are inserted by checked addEdge only: add1(),
\* add2(), addEdge( n1, n2, true ) and eraseEdge.
CheckedNext ==
    \/ Proceed
    \/ Add1
    \/ Add2
    \/ AddEdgeChecked
    \/ EraseEdge
    \/ EraseAfterAdd

CheckedSpec == Init /\ [][CheckedNext]_vars

---------------------------------------------------------------------------
(* Properties *)

\* The records of the lists in `mine` (one list per node of one type) are
\* cross-referenced with those of the lists in `other` (the opposite type).
DualSide(mine, other) ==
    \A a \in 1..Len(mine) : \A p \in 1..Len(mine[a]) :
        LET r == mine[a][p] IN
        /\ r.iter = p - 1
        /\ r.node < Len(other)
        /\ r.dual < Len(other[r.node + 1])
        /\ other[r.node + 1][r.dual + 1].node = a - 1
        /\ other[r.node + 1][r.dual + 1].dual = p - 1

DualInvariant(g) == DualSide(g.nb1, g.nb2) /\ DualSide(g.nb2, g.nb1)

\* the node members of a neighbour list, in list order
NodeSeq(L) == [k \in 1..Len(L) |-> L[k].node]

\* the edge ( n1, n2 ) is in the store, seen from n1's list
HasEdge(g, n1, n2) == FirstPos(nb1(g, n1), n2) # 0

\* the sum of the degrees of the nodes of type 2
nrEdges2(g) == SumLen(g.nb2, nr2(g))

\* C1: in every state reached by calls that returned, every record of every
\* neighbour list has iter equal to its position and is cross-referenced by
\* dual with the record of its neighbour that names its owner.
C1_DualInvariant == err = "ok" => DualInvariant(Cur)

\* C2: a mutating call that fails on an out-of-range id leaves the store as
\* it was before the call.
C2_NoPartialFailure ==
    [][(last'.op \in Mutators /\ err' = "IndexOutOfRange")
          => (_nb1' = _nb1 /\ _nb2' = _nb2)]_vars

\* C3: in every state reached by calls that returned, the degrees of the
\* nodes of type 1 and the degrees of the nodes of type 2 have the same sum.
C3_EdgeCountSymmetry == err = "ok" => nrEdges(Cur) = nrEdges2(Cur)

\* C3 witness: an eraseEdge has returned, edges are left, and the cross
\* references are broken, so that the symmetry does not rest on them.
C3_Witness ==
    /\ err = "ok"
    /\ last.op = "eraseEdge"
    /\ nrEdges(Cur) >= 2
    /\ ~DualInvariant(Cur)

\* C4 as claimed: a checked addEdge( n1, n2 ) followed at once by
\* eraseEdge( n1, n2 ) restores the degrees of n1 and n2 and the dual
\* invariant, whatever the store held before.
C4_RoundTripAlways ==
    (rt # None /\ err = "ok") =>
        /\ Len(nb1(Cur, last.n1)) = Len(nb1(rt, last.n1))
        /\ Len(nb2(Cur, last.n2)) = Len(nb2(rt, last.n2))
        /\ DualInvariant(Cur) = DualInvariant(rt)

\* C4 amended: when the edge ( n1, n2 ) is not in the store, a checked
\* addEdge( n1, n2 ) followed at once by eraseEdge( n1, n2 ) restores the
\* degrees of n1 and n2, the dual invariant, and the whole store; when the
\* edge is in the store, the pair of calls removes one record from each list.
C4_RoundTripAbsent ==
    (rt # None /\ err = "ok") =>
        IF ~HasEdge(rt, last.n1, last.n2)
        THEN /\ Len(nb1(Cur, last.n1)) = Len(nb1(rt, last.n1))
             /\ Len(nb2(Cur, last.n2)) = Len(nb2(rt, last.n2))
             /\ DualInvariant(Cur) = DualInvariant(rt)
             /\ _nb1 = rt.nb1
             /\ _nb2 = rt.nb2
        ELSE /\ Len(nb1(Cur, last.n1)) = Len(nb1(rt, last.n1)) - 1
             /\ Len(nb2(Cur, last.n2)) = Len(nb2(rt, last.n2)) - 1

\* C4 witness: the round trip was made on a store without the edge, in which
\* both nodes had neighbours already.
C4_Witness ==
    /\ rt # None
    /\ err = "ok"
    /\ ~HasEdge(rt, last.n1, last.n2)
    /\ Len(nb1(rt, last.n1)) >= 1
    /\ Len(nb2(rt, last.n2)) >= 1

\* C5: after a checked addEdge( n1, n2 ) the edge is in n1's list; the call
\* left the whole store as it was when the edge was there already; and the
\* same call made again changes neither the store nor the number of edges.
C5_CheckedAddIdempotent ==
    (last.op = "addEdge" /\ last.check /\ err = "ok") =>
        /\ HasEdge(Cur, last.n1, last.n2)
        /\ HasEdge(pre, last.n1, last.n2) => (_nb1 = pre.nb1 /\ _nb2 = pre.nb2)
        /\ addEdge(Cur, last.n1, last.n2, TRUE) = Cur
        /\ nrEdges(addEdge(Cur, last.n1, last.n2, TRUE)) = nrEdges(Cur)

\* C5 witness: a checked addEdge has returned on a store that held the edge.
C5_Witness ==
    /\ last.op = "addEdge"
    /\ last.check
    /\ err = "ok"
    /\ HasEdge(pre, last.n1, last.n2)
    /\ Len(nb1(pre, last.n1)) >= 2

\* node ids after node n of the same type is removed: those above n move down
Shifted(ns, n) == [k \in 1..Len(ns) |-> IF ns[k] > n THEN ns[k] - 1 ELSE ns[k]]

\* What removing node n does: m, o are the lists of n's type and of the
\* opposite type before the call, m2, o2 after it.
Removed(m, o, m2, o2, n) ==
    /\ Len(m2) = Len(m) - 1
    /\ Len(o2) = Len(o)
    /\ \A j \in 1..Len(m) :
        /\ j < n + 1 => NodeSeq(m2[j]) = NodeSeq(m[j])
        /\ j > n + 1 => NodeSeq(m2[j - 1]) = NodeSeq(m[j])
    /\ \A i \in 1..Len(o) :
        /\ NodeSeq(o2[i]) = Shifted(SelectSeq(NodeSeq(o[i]), LAMBDA x : x # n), n)
        /\ \A k \in 1..Len(o2[i]) : o2[i][k].node < Len(m2)

ExampleGraph ==
    construct(None, 3, 2, << <<0, 0>>, <<1, 0>>, <<2, 0>>, <<1, 1>>, <<2, 1>> >>, FALSE)

\* C6: erase1( n1 ) and erase2( n2 ) on an in-range id take the node out:
\* one node less of its type, the other nodes of its type keep their
\* neighbours in order and those above it move down by one, the lists of the
\* opposite type lose the records that named it and name the nodes above it
\* by their new ids, and the number of edges drops by its degree.  On the
\* example graph, erase1( 0 ) leaves the edges (0,0), (1,0), (0,1), (1,1).
C6_RemoveNode ==
    /\ (last.op = "erase1" /\ err = "ok") =>
        /\ Removed(pre.nb1, pre.nb2, _nb1, _nb2, last.n1)
        /\ nrEdges(Cur) = nrEdges(pre) - Len(nb1(pre, last.n1))
        /\ nrEdges2(Cur) = nrEdges(Cur)
    /\ (last.op = "erase2" /\ err = "ok") =>
        /\ Removed(pre.nb2, pre.nb1, _nb2, _nb1, last.n2)
        /\ nrEdges(Cur) = nrEdges(pre) - Len(nb2(pre, last.n2))
        /\ nrEdges2(Cur) = nrEdges(Cur)
    /\ LET h == erase1(ExampleGraph, 0) IN
        /\ nr1(h) = 2
        /\ nrEdges(h) = 4
        /\ NodeSeq(nb1(h, 0)) = <<0, 1>>
        /\ NodeSeq(nb1(h, 1)) = <<0, 1>>
        /\ NodeSeq(nb2(h, 0)) = <<0, 1>>
        /\ NodeSeq(nb2(h, 1)) = <<0, 1>>

\* C6 witness: node 0 of type 1, which had a neighbour, was removed while a
\* node above it had neighbours.
C6_Witness ==
    /\ last.op = "erase1"
    /\ err = "ok"
    /\ last.n1 = 0
    /\ Len(nb1(pre, 0)) >= 1
    /\ nr1(Cur) >= 1
    /\ Len(nb1(Cur, 0)) >= 1

\* The number of edges a tree on the nodes of g has.  In size_t arithmetic
\* nr1 + nr2 - 1 wraps to the largest value when there is no node; no number
\* of edges equals that either.
TreeEdges(g) == nr1(g) + nr2(g) - 1

OutOfRange(c, g) ==
    \/ c.op \in {"addEdge", "eraseEdge"} /\ (c.n1 >= nr1(g) \/ c.n2 >= nr2(g))
    \/ c.op = "add1_range" /\ \E k \in 1..Len(c.ids) : c.ids[k] >= nr2(g)
    \/ c.op = "add2_range" /\ \E k \in 1..Len(c.ids) : c.ids[k] >= nr1(g)
    \/ c.op = "nb1_of" /\ c.n1 >= nr1(g)
    \/ c.op = "nb2_of" /\ c.n2 >= nr2(g)
    \/ c.op = "nb1_at" /\ (c.n1 >= nr1(g) \/ c.n2 >= Len(nb1(g, c.n1)))
    \/ c.op = "nb2_at" /\ (c.n2 >= nr2(g) \/ c.n1 >= Len(nb2(g, c.n2)))

\* C8: every call that is given an out-of-range node id (or position) fails
\* with IndexOutOfRange: construct, add1/add2 with neighbours, addEdge,
\* eraseEdge and the accessors.
C8_AlwaysIndexOutOfRange ==
    /\ (last.op = "construct"
          /\ \E k \in 1..Len(last.ids) :
                last.ids[k][1] >= last.n1 \/ last.ids[k][2] >= last.n2)
        => err = "IndexOutOfRange"
    /\ (last.op \in {"addEdge", "eraseEdge", "add1_range", "add2_range"}
          /\ OutOfRange(last, pre))
        => err = "IndexOutOfRange"
    /\ (last.op \in {"nb1_of", "nb2_of", "nb1_at", "nb2_at"} /\ OutOfRange(last, Cur))
        => err = "IndexOutOfRange"

LegacyQueries == {"edge", "VV2E", "nr_edges"}

\* C9: edge(), VV2E() and nr_edges() fail with NotIndexed exactly as long as
\* indexEdges() has not been called on the object, whatever calls came before.
C9_NotIndexedUntilRebuilt ==
    /\ _edge_indexed = indexed_once
    /\ last.op \in LegacyQueries => ((err = "NotIndexed") = ~indexed_once)

\* C9 witness: a legacy query failed with NotIndexed on a graph with edges.
C9_Witness ==
    /\ last.op \in LegacyQueries
    /\ err = "NotIndexed"
    /\ nrEdges(Cur) >= 1

\* C10: a call that changes the store (construct included) leaves
\* _edge_indexed, _edges and _vv2e as they are, so that the legacy queries
\* answer as before the call.
C10_IndexNotSynchronised ==
    [][last'.op \in Mutators =>
          /\ _edge_indexed' = _edge_indexed
          /\ _edges' = _edges
          /\ _vv2e' = _vv2e
          /\ \A e \in 0..MaxIndexed :
                edge(Index(_edge_indexed', _edges', _vv2e'), e) = edge(CurIndex, e)
          /\ nr_edges(Index(_edge_indexed', _edges', _vv2e')) = nr_edges(CurIndex)]_vars

\* C10 witness: construct has returned on an indexed object, and the index
\* holds edges that the store does not.
C10_Witness ==
    /\ last.op = "construct"
    /\ err = "ok"
    /\ _edge_indexed
    /\ Len(_edges) >= 1
    /\ _edges # sort(ListEdges(Cur, 0))

\* how many elements of the sequence s are x
Count(s, x) == Cardinality({k \in 1..Len(s) : s[k] = x})

\* the edge list holds every edge of the store g, as often as the store does,
\* sorted by (type-1 id, type-2 id)
SortedEdgesOf(es, g) ==
    /\ Len(es) = nrEdges(g)
    /\ \A k \in 1..Len(es) : Count(es, es[k]) = Count(ListEdges(g, 0), es[k])
    /\ \A j, k \in 1..Len(es) : j < k => ~EdgeLess(es[k], es[j])

\* the largest ordinal at which the edge list holds the edge it holds at ordinal k
LastOrdinal(es, k) ==
    CHOOSE j \in k..(Len(es) - 1) :
        es[j + 1] = es[k + 1] /\ \A i \in (j + 1)..(Len(es) - 1) : es[i + 1] # es[k + 1]

\* C11 as claimed: right after indexEdges(), on every store, also one with
\* duplicate edges, the edge list holds the edges of the store sorted,
\* nr_edges() == nrEdges(), and VV2E( edge( k ) ) == k for every k < nr_edges().
C11_OrdinalRoundTripAlways ==
    last.op = "indexEdges" =>
        /\ SortedEdgesOf(_edges, Cur)
        /\ nr_edges(CurIndex) = {Outcome("ok", nrEdges(Cur))}
        /\ \A k \in 0..(Len(_edges) - 1) : \A o \in edge(CurIndex, k) :
              VV2E(CurIndex, o.ret[1], o.ret[2]) = {Outcome("ok", k)}

\* C11 amended: right after indexEdges(), the edge list holds the edges of the
\* store sorted, nr_edges() == nrEdges(), and VV2E( edge( k ) ) is the largest
\* ordinal that holds the same edge as ordinal k: it is k for every k when the
\* store holds no edge twice, and it is not k for the earlier of two equal edges.
C11_OrdinalRoundTripLast ==
    last.op = "indexEdges" =>
        /\ SortedEdgesOf(_edges, Cur)
        /\ nr_edges(CurIndex) = {Outcome("ok", nrEdges(Cur))}
        /\ \A k \in 0..(Len(_edges) - 1) : \A o \in edge(CurIndex, k) :
              /\ VV2E(CurIndex, o.ret[1], o.ret[2]) = {Outcome("ok", LastOrdinal(_edges, k))}
              /\ Count(_edges, _edges[k + 1]) = 1 =>
                    VV2E(CurIndex, o.ret[1], o.ret[2]) = {Outcome("ok", k)}
              /\ Count(_edges, _edges[k + 1]) > 1 =>
                    \E j \in 0..(Len(_edges) - 1) :
                        /\ _edges[j + 1] = _edges[k + 1]
                        /\ VV2E(CurIndex, _edges[j + 1][1], _edges[j + 1][2])
                              # {Outcome("ok", j)}

\* C11 witness: indexEdges() has returned on a store of two different edges
\* that the first loop lists in another order than the sorted one.
C11_Witness ==
    /\ last.op = "indexEdges"
    /\ Len(_edges) = 2
    /\ _edges[1] # _edges[2]
    /\ ListEdges(Cur, 0) # _edges

\* the sequence es without the later occurrences of its elements
RECURSIVE FirstOnly(_)
FirstOnly(es) ==
    IF es = <<>> THEN <<>>
    ELSE LET r == FirstOnly(SubSeq(es, 1, Len(es) - 1))
             e == es[Len(es)]
         IN  IF \E k \in 1..Len(r) : r[k] = e THEN r ELSE Append(r, e)

\* the components c2 of the edges of es whose component c1 is n, in order
Partners(es, c1, c2, n) ==
    LET sel == SelectSeq(es, LAMBDA e : e[c1] = n)
    IN  [k \in 1..Len(sel) |-> sel[k][c2]]

\* the edges construct stores: every occurrence in a build without DAI_DEBUG
\* (unchecked insertion), the first occurrence only in a DAI_DEBUG build
Stored(es, debug) == IF debug THEN FirstOnly(es) ELSE es

\* C12: construct( nr1, nr2, edges ) with every edge in range returns, and
\* leaves a store that its arguments determine: nr1 and nr2 nodes, the list of
\* each node holding its edges in input order, once per occurrence when the
\* insertion is unchecked and once when it is checked.  The example graph,
\* constructed on whatever store a construct has left, has type-1 degrees
\* 1, 2, 2, type-2 degrees 3, 2 and 5 edges.
C12_ConstructFromArguments ==
    /\ (last.op = "construct"
          /\ \A k \in 1..Len(last.ids) :
                last.ids[k][1] < last.n1 /\ last.ids[k][2] < last.n2) =>
        /\ err = "ok"
        /\ nr1(Cur) = last.n1
        /\ nr2(Cur) = last.n2
        /\ \A i \in 0..(last.n1 - 1) :
              /\ NodeSeq(nb1(Cur, i)) = Partners(Stored(last.ids, DAI_DEBUG), 1, 2, i)
              /\ ~DAI_DEBUG => Len(nb1(Cur, i)) =
                                  Cardinality({k \in 1..Len(last.ids) : last.ids[k][1] = i})
        /\ \A j \in 0..(last.n2 - 1) :
              /\ NodeSeq(nb2(Cur, j)) = Partners(Stored(last.ids, DAI_DEBUG), 2, 1, j)
              /\ ~DAI_DEBUG => Len(nb2(Cur, j)) =
                                  Cardinality({k \in 1..Len(last.ids) : last.ids[k][2] = j})
        /\ Cur = construct(None, last.n1, last.n2, last.ids, DAI_DEBUG)
    /\ (last.op = "construct" /\ err = "ok") =>
        LET es == << <<0, 0>>, <<1, 0>>, <<2, 0>>, <<1, 1>>, <<2, 1>> >>
            h == construct(Cur, 3, 2, es, DAI_DEBUG)
        IN  /\ [i \in 1..3 |-> Len(h.nb1[i])] = <<1, 2, 2>>
            /\ [j \in 1..2 |-> Len(h.nb2[j])] = <<3, 2>>
            /\ nrEdges(h) = 5
            /\ h = construct(None, 3, 2, es, DAI_DEBUG)

\* C12 witness: a checked construct was given the same edge twice, on an
\* object that held edges before (its index still lists them), and stored one.
C12_Witness ==
    /\ last.op = "construct"
    /\ err = "ok"
    /\ DAI_DEBUG
    /\ Len(last.ids) = 2
    /\ last.ids[1] = last.ids[2]
    /\ nrEdges(Cur) = 1
    /\ _edge_indexed
    /\ Len(_edges) >= 1

\* C13: eraseEdge( n1, n2 ) with ids in range, on a store in which n1's list
\* has no record for n2, returns without an error and leaves both vectors,
\* and so every neighbour list and both node counts, as they were.
C13_EraseAbsentIsNoOp ==
    (last.op = "eraseEdge"
       /\ last.n1 < nr1(pre) /\ last.n2 < nr2(pre)
       /\ ~HasEdge(pre, last.n1, last.n2)) =>
        /\ err = "ok"
        /\ _nb1 = pre.nb1
        /\ _nb2 = pre.nb2

\* C13 witness: eraseEdge( n1, n2 ) has returned for an edge that was not
\* there, while both n1 and n2 had other neighbours.
C13_Witness ==
    /\ last.op = "eraseEdge"
    /\ err = "ok"
    /\ last.n1 < nr1(pre) /\ last.n2 < nr2(pre)
    /\ ~HasEdge(pre, last.n1, last.n2)
    /\ Len(nb1(pre, last.n1)) >= 1
    /\ Len(nb2(pre, last.n2)) >= 1

\* the neighbour list L back to front
Reverse(L) == [k \in 1..Len(L) |-> L[Len(L) + 1 - k]]

\* the store g with every neighbour list back to front
Reversed(g) ==
    [g EXCEPT !.nb1 = [i \in 1..Len(g.nb1) |-> Reverse(g.nb1[i])],
              !.nb2 = [i \in 1..Len(g.nb2) |-> Reverse(g.nb2[i])]]

\* nodes u and v (each <<type, id>>) are the two ends of an edge of g
Joined(g, u, v) ==
    /\ u[1] # v[1]
    /\ \/ \E k \in 1..Len(ListOf(g, u)) : ListOf(g, u)[k].node = v[2]
       \/ \E k \in 1..Len(ListOf(g, v)) : ListOf(g, v)[k].node = u[2]

\* the nodes of g cannot be split into two non-empty parts without an edge
\* between them: every node is reachable from every node
Unsplittable(g) ==
    \A S \in SUBSET Nodes(g) :
        (S # {} /\ S # Nodes(g)) => \E u \in S, v \in Nodes(g) \ S : Joined(g, u, v)

\* C14: isConnected() returns true exactly when every node of both types is
\* reachable from one node along the edges; it returns true for the graph
\* without nodes, false for a graph of two nodes or more one of which has
\* degree 0, and the same for the store with every list in another order.
C14_ConnectedIffReachable ==
    (last.op = "isConnected" /\ err = "ok") =>
        /\ ret = isConnected(Cur)
        /\ ret = Unsplittable(Cur)
        /\ ret = (Nodes(Cur) = {} \/ \E s \in Nodes(Cur) : Reach(Cur, {s}) = Nodes(Cur))
        /\ Nodes(Cur) = {} => ret
        /\ (Cardinality(Nodes(Cur)) >= 2
              /\ \E u \in Nodes(Cur) : Len(ListOf(Cur, u)) = 0) => ~ret
        /\ isConnected(Reversed(Cur)) = ret

\* C14 witness: isConnected() has returned true on a graph of three nodes or
\* more some list of which reads differently back to front.
C14_Witness ==
    /\ last.op = "isConnected"
    /\ err = "ok"
    /\ ret = TRUE
    /\ Cardinality(Nodes(Cur)) >= 3
    /\ Reversed(Cur) # Cur

\* the elements of the sequence s
Range(s) == {s[k] : k \in 1..Len(s)}

\* The nodes other than n that have a neighbour in common with node n, each
\* seen from its own list: mine are the lists of n's type.
Sharing(mine, n) ==
    {m \in 0..(Len(mine) - 1) :
        /\ m # n
        /\ \E j \in 1..Len(mine[n + 1]), k \in 1..Len(mine[m + 1]) :
              mine[n + 1][j].node = mine[m + 1][k].node}

\* what delta1 / delta2 has to return on node n
SecondOrder(r, mine, n, include) ==
    /\ \A j, k \in 1..Len(r) : j < k => r[j] # r[k]
    /\ Range(r) = (IF include THEN Sharing(mine, n) \cup {n} ELSE Sharing(mine, n))

Appended(m0, o0, m, o, ids) ==
    LET new == Len(m0)
        L == m[new + 1]
    IN  /\ Len(m) = Len(m0) + 1
        /\ Len(o) = Len(o0)
        /\ \A i \in 1..Len(m0) : m[i] = m0[i]
        /\ Len(L) = Len(ids)
        /\ \A k \in 1..Len(ids) :
              /\ L[k].iter = k - 1
              /\ L[k].node = ids[k]
              /\ L[k].dual >= Len(o0[ids[k] + 1])
              /\ L[k].dual < Len(o[ids[k] + 1])
              /\ o[ids[k] + 1][L[k].dual + 1] = Neighbor(L[k].dual, new, k - 1)
        /\ \A j \in 1..Len(o0) :
              /\ Len(o[j]) = Len(o0[j]) + Count(ids, j - 1)
              /\ SubSeq(o[j], 1, Len(o0[j])) = o0[j]

\* C16: add1() / add2() and add1( begin, end ) / add2( begin, end ) with ids
\* in range only append: the new node gets the old number of nodes of its
\* type as its id, every list that was there keeps its records, each named
\* neighbour gets one record at the end of its list per occurrence of its id,
\* and the k-th record of the new node has iter == k, node == the k-th id and
\* dual == the position of the record appended for it to that neighbour.
C16_AppendOnly ==
    /\ (last.op \in {"add1", "add1_range"} /\ err = "ok") =>
          Appended(pre.nb1, pre.nb2, _nb1, _nb2, last.ids)
    /\ (last.op \in {"add2", "add2_range"} /\ err = "ok") =>
          Appended(pre.nb2, pre.nb1, _nb2, _nb1, last.ids)
    /\ (last.op = "add1_range" /\ \A k \in 1..Len(last.ids) : last.ids[k] < nr2(pre)) =>
          err = "ok"
    /\ (last.op = "add2_range" /\ \A k \in 1..Len(last.ids) : last.ids[k] < nr1(pre)) =>
          err = "ok"

\* C16 witness: a node of type 1 was appended with the same neighbour named
\* twice, to a store that held an edge already.
C16_Witness ==
    /\ last.op = "add1_range"
    /\ err = "ok"
    /\ Len(last.ids) = 2
    /\ last.ids[1] = last.ids[2]
    /\ nrEdges(pre) >= 1

\* C17 (under GrowSpec): in every state reached by construct, add1, add2
\* (with or without neighbours) and addEdge (checked or not) alone, when the
\* calls returned, every record r at position p of the list of node a has
\* r.iter == p and the record at r.dual of r.node's list names a and has
\* dual == p.
C17_GrowthKeepsDual ==
    err = "ok" =>
        /\ DualSide(_nb1, _nb2)
        /\ DualSide(_nb2, _nb1)

\* C17 witness: an unchecked addEdge has stored an edge a second time, in a
\* store of three edges or more.
C17_Witness ==
    /\ last.op = "addEdge"
    /\ err = "ok"
    /\ ~last.check
    /\ HasEdge(pre, last.n1, last.n2)
    /\ nrEdges(Cur) >= 3

\* how many records of the list L name node n
Records(L, n) == Cardinality({k \in 1..Len(L) : L[k].node = n})

\* the list L is the list L0 without the first of its records that name n
WithoutFirst(L0, L, n) ==
    \E p \in 1..Len(L0) :
        /\ L0[p].node = n
        /\ \A j \in 1..(p - 1) : L0[j].node # n
        /\ Len(L) = Len(L0) - 1
        /\ \A j \in 1..Len(L) : L[j] = (IF j < p THEN L0[j] ELSE L0[j + 1])

\* every pair (type-1 node, type-2 node) has as many records in the list of
\* the one as in the list of the other
PairsAgree(g) ==
    /\ \A a \in 0..(nr1(g) - 1) : \A k \in 1..Len(nb1(g, a)) : nb1(g, a)[k].node < nr2(g)
    /\ \A b \in 0..(nr2(g) - 1) : \A k \in 1..Len(nb2(g, b)) : nb2(g, b)[k].node < nr1(g)
    /\ \A a \in 0..(nr1(g) - 1), b \in 0..(nr2(g) - 1) :
          Records(nb1(g, a), b) = Records(nb2(g, b), a)

\* C18: eraseEdge( n1, n2 ) that returns changes neither node count nor the
\* list of any node but n1 and n2; it takes at most one record from n1's list
\* and at most one from n2's; when n1's list has a record for n2 it takes
\* exactly the first such record from n1's list and the first record for n1
\* from n2's list, so one copy of a duplicate edge per call; and afterwards
\* every pair of nodes has as many records on the one side as on the other.
C18_EraseEdgeFrame ==
    (last.op = "eraseEdge" /\ err = "ok") =>
        /\ nr1(Cur) = nr1(pre)
        /\ nr2(Cur) = nr2(pre)
        /\ \A i \in 0..(nr1(pre) - 1) : i # last.n1 => nb1(Cur, i) = nb1(pre, i)
        /\ \A j \in 0..(nr2(pre) - 1) : j # last.n2 => nb2(Cur, j) = nb2(pre, j)
        /\ Len(nb1(Cur, last.n1)) >= Len(nb1(pre, last.n1)) - 1
        /\ Len(nb2(Cur, last.n2)) >= Len(nb2(pre, last.n2)) - 1
        /\ HasEdge(pre, last.n1, last.n2) =>
              /\ WithoutFirst(nb1(pre, last.n1), nb1(Cur, last.n1), last.n2)
              /\ WithoutFirst(nb2(pre, last.n2), nb2(Cur, last.n2), last.n1)
              /\ Records(nb1(Cur, last.n1), last.n2)
                    = Records(nb1(pre, last.n1), last.n2) - 1
        /\ PairsAgree(Cur)

\* C18 witness: eraseEdge has taken one of two copies of an edge, and two
\* edges or more are left.
C18_Witness ==
    /\ last.op = "eraseEdge"
    /\ err = "ok"
    /\ Records(nb1(pre, last.n1), last.n2) = 2
    /\ Records(nb1(Cur, last.n1), last.n2) = 1
    /\ nrEdges(Cur) >= 2

\* no two records of a list of v name the same node
NoDuplicate(v) ==
    \A i \in 1..Len(v) : \A j, k \in 1..Len(v[i]) : j # k => v[i][j].node # v[i][k].node

\* C19 (under CheckedSpec): in every state reached by add1(), add2(),
\* addEdge( n1, n2, true ) and eraseEdge alone, no list of a node of type 1
\* and no list of a node of type 2 holds two records with the same node.
C19_CheckedNeverDuplicates == NoDuplicate(_nb1) /\ NoDuplicate(_nb2)

\* C19 witness: a checked addEdge has stored an edge that was not there, in a
\* store of three edges or more whose cross references an eraseEdge had
\* broken before.
C19_Witness ==
    /\ last.op = "addEdge"
    /\ last.check
    /\ err = "ok"
    /\ ~HasEdge(pre, last.n1, last.n2)
    /\ ~DualInvariant(pre)
    /\ nrEdges(Cur) >= 3

=============================================================================
